---- MODULE Spec2Model ----
(***************************************************************************)
(* Model of the local RAG pipeline (rag_pipeline.py) driven by the         *)
(* Streamlit application (app.py).                                         *)
(*                                                                         *)
(* Texts are TLA+ strings; the persisted ChromaDB directory, the documents *)
(* directory and the Streamlit session are the state.  One Streamlit run   *)
(* of the script is the action EseguiScript (sidebar, auto-load, question  *)
(* gate); the two blocking calls of fai_domanda (retriever.invoke and      *)
(* llm.invoke) are the actions Retrieve and Generate.                      *)
(***************************************************************************)
EXTENDS Integers, Sequences, FiniteSets, TLC

VARIABLES
    documents_dir,      \* config.DOCUMENTS_DIR: whether it exists and the file names in it
    chroma_db,          \* config.CHROMA_DB_DIR: whether it exists and the persisted collection
    embedding_model,    \* config.EMBEDDING_MODEL as imported by the running process
    session_state,      \* st.session_state: "vector_store" and "catena" (None = key absent)
    persist_rimossa,    \* the directory behind the session's open Chroma client was removed
    stato,              \* position of the question of the current run
    domanda,            \* value of the st.text_input in the current run
    documenti_trovati,  \* fai_domanda: result of retriever.invoke
    prompt_finale,      \* fai_domanda: the formatted prompt (context and question)
    llm_invocato,       \* llm.invoke was called in the current run
    risultato,          \* value returned by fai_domanda (None = nothing returned)
    schermo,            \* what the current run has rendered in the main area
    evento              \* history: what the step that led to this state called and got

vars == << documents_dir, chroma_db, embedding_model, session_state, persist_rimossa,
           stato, domanda, documenti_trovati, prompt_finale, llm_invocato, risultato,
           schermo, evento >>

-----------------------------------------------------------------------------
(* Bounds of the model *)

\* at most this many files are in the documents directory at once
MaxFiles == 2

-----------------------------------------------------------------------------
(* Program constants *)

CHUNK_SIZE == 1000
CHUNK_OVERLAP == 200
TOP_K == 4
\* doc.page_content[:300]
ESTRATTO_LEN == 300

EMBEDDING_MODEL == "all-MiniLM-L6-v2"
OLLAMA_MODEL == "llama3.2:3b"
SEPARATORE_CONTESTO == "\n\n---\n\n"
PUNTINI == "..."

\* Python None, and an absent key of st.session_state
None == [ none |-> TRUE ]
\* a documents directory that does not exist
Assente == [ esiste |-> FALSE, file |-> { } ]
\* a persist directory that does not exist
NoDir == [ esiste |-> FALSE, collection |-> << >> ]
\* a persist directory holding the collection
Dir(collection) == [ esiste |-> TRUE, collection |-> collection ]

-----------------------------------------------------------------------------
(* Strings *)

RECURSIVE Rep(_, _)
\* the string s repeated n times
Rep(s, n) ==
    IF n = 0 THEN ""
    ELSE IF n % 2 = 0 THEN LET h == Rep(s, n \div 2) IN h \o h
    ELSE s \o Rep(s, n - 1)

\* Python s[:n]
Primi(s, n) == SubSeq(s, 1, IF Len(s) < n THEN Len(s) ELSE n)

\* Python s.endswith(suffisso)
EndsWith(s, suffisso) ==
    /\ Len(s) >= Len(suffisso)
    /\ SubSeq(s, Len(s) - Len(suffisso) + 1, Len(s)) = suffisso

\* t is a prefix of s
IsPrefix(t, s) == Len(t) <= Len(s) /\ SubSeq(s, 1, Len(t)) = t

Maiuscole == "ABCDEFGHIJKLMNOPQRSTUVWXYZ"
Minuscole == "abcdefghijklmnopqrstuvwxyz"

\* the lower-case letter of every upper-case letter
InMinuscolo ==
    [ c \in { SubSeq(Maiuscole, i, i) : i \in 1..Len(Maiuscole) } |->
        LET i == CHOOSE j \in 1..Len(Maiuscole) : SubSeq(Maiuscole, j, j) = c
        IN  SubSeq(Minuscole, i, i) ]

LowerChar(c) == IF c \in DOMAIN InMinuscolo THEN InMinuscolo[c] ELSE c

RECURSIVE Lower(_)
\* Python s.lower()
Lower(s) ==
    IF s = "" THEN ""
    ELSE LowerChar(SubSeq(s, 1, 1)) \o Lower(SubSeq(s, 2, Len(s)))

-----------------------------------------------------------------------------
(* The files the environment can put in the documents directory *)

\* os.listdir / glob order of the directory (arbitrary but fixed)
Elenco == << "a.pdf", "rotto.pdf", "b.pdf", "scan.pdf", "E.PDF" >>

Files == { Elenco[i] : i \in 1..Len(Elenco) }

TestoBreve == "The capital of Italy is Rome."
\* 1900 characters without any separator of the splitter
TestoLungo == Rep("a", 800) \o Rep("b", 800) \o Rep("c", 300)
\* 400 characters whose characters 301..303 are three dots
TestoMedio == Rep("x", 300) \o "..." \o Rep("y", 97)

\* the files PyPDFLoader(percorso).load() raises on
Corrotto(f) == f = "rotto.pdf"

\* PyPDFLoader(percorso).load(): the page texts of a file that loads
Contenuto(f) ==
    CASE f = "a.pdf"     -> << TestoBreve, TestoLungo >>
      [] f = "b.pdf"     -> << TestoMedio, "" >>
      [] f = "scan.pdf"  -> << "" >>
      [] f = "E.PDF"     -> << "Roma" >>
      [] OTHER           -> << >>

-----------------------------------------------------------------------------
(* Loader: carica_pdf *)

\* the names in cartella in the order the file system lists them (elenco); none when
\* the directory does not exist
ListDir(cartella, elenco) ==
    IF ~cartella.esiste THEN << >>
    ELSE SelectSeq(elenco, LAMBDA f : f \in cartella.file)

\* glob.glob(os.path.join(cartella, "*.pdf")): case-sensitive match of the extension
glob_pdf(cartella, elenco) ==
    SelectSeq(ListDir(cartella, elenco), LAMBDA f : EndsWith(f, ".pdf"))

\* app.lista_documenti: names whose lower-cased form ends with ".pdf"
lista_documenti(cartella) ==
    SelectSeq(ListDir(cartella, Elenco), LAMBDA f : EndsWith(Lower(f), ".pdf"))

\* a LangChain Document
Document(testo, nome_file, pagina) ==
    [ page_content |-> testo, source_filename |-> nome_file, page |-> pagina ]

\* body of the for loop: loader.load() inside try/except, pages tagged with nome_file;
\* the exception of a corrupt file is caught and the file contributes nothing
PagineDi(nome_file) ==
    IF Corrotto(nome_file) THEN << >>
    ELSE [ i \in 1..Len(Contenuto(nome_file)) |->
             Document(Contenuto(nome_file)[i], nome_file, i - 1) ]

RECURSIVE CaricaFileInterrotto(_)
\* faulty variant: the first file that fails to load ends the whole batch
CaricaFileInterrotto(file_pdf) ==
    IF file_pdf = << >> THEN << >>
    ELSE IF Corrotto(Head(file_pdf)) THEN << >>
    ELSE PagineDi(Head(file_pdf)) \o CaricaFileInterrotto(Tail(file_pdf))

RECURSIVE CaricaFile(_)
\* the for loop over file_pdf: documenti.extend(pagine) for every file that loads
CaricaFile(file_pdf) ==
    IF file_pdf = << >> THEN << >>
    ELSE PagineDi(Head(file_pdf)) \o CaricaFile(Tail(file_pdf))

\* carica_pdf: no PDF found gives the empty list, else the pages of the files that load
carica_pdf(cartella, elenco) ==
    LET file_pdf == glob_pdf(cartella, elenco)
    IN  IF file_pdf = << >> THEN << >> ELSE CaricaFile(file_pdf)

-----------------------------------------------------------------------------
(* Chunker: chunking (RecursiveCharacterTextSplitter.split_documents) *)

RECURSIVE Finestre(_, _, _, _)
\* the splitter on a text longer than chunk_size that holds none of the separators
\* "\n\n", "\n", ". ", " ": windows of chunk_size characters, each starting
\* chunk_size - chunk_overlap characters after the previous one
Finestre(testo, inizio, chunk_size, chunk_overlap) ==
    IF Len(testo) - inizio <= chunk_size
    THEN << SubSeq(testo, inizio + 1, Len(testo)) >>
    ELSE << SubSeq(testo, inizio + 1, inizio + chunk_size) >>
         \o Finestre(testo, inizio + chunk_size - chunk_overlap, chunk_size, chunk_overlap)

\* split_text: an empty text gives no chunk, a text that fits gives one chunk
split_text(testo, chunk_size, chunk_overlap) ==
    IF testo = "" THEN << >>
    ELSE IF Len(testo) <= chunk_size THEN << testo >>
    ELSE Finestre(testo, 0, chunk_size, chunk_overlap)

RECURSIVE chunking(_, _, _)
\* every chunk keeps the metadata of the page it comes from
chunking(documenti, chunk_size, chunk_overlap) ==
    IF documenti = << >> THEN << >>
    ELSE LET d == Head(documenti)
             pezzi == split_text(d.page_content, chunk_size, chunk_overlap)
         IN  [ i \in 1..Len(pezzi) |-> Document(pezzi[i], d.source_filename, d.page) ]
             \o chunking(Tail(documenti), chunk_size, chunk_overlap)

-----------------------------------------------------------------------------
(* Embedder and Index: _crea_embeddings, crea_vector_store, carica_vector_store *)

\* the sentence-transformers models the configuration can name; both give vectors of
\* the same dimension, so the vector store accepts the vectors of either
Models == { "all-MiniLM-L6-v2", "all-MiniLM-L12-v2" }

\* _crea_embeddings(): the embedder of the model the configuration names now
_crea_embeddings(config_model) == config_model

\* an entry of the collection: the chunk and the model that computed its vector
Voce(chunk, embeddings) ==
    [ page_content |-> chunk.page_content, source_filename |-> chunk.source_filename,
      page |-> chunk.page, embedding |-> embeddings ]

\* a Chroma object: its embedding function and the collection its client has open
Chroma(embeddings, collection) ==
    [ embedding_function |-> embeddings, collection |-> collection ]

\* crea_vector_store -> Chroma.from_documents(chunks, embeddings, persist_directory):
\* opens (creating it when absent) the collection under persist_directory, then adds one
\* entry per chunk to whatever the collection already holds.  With no chunk the
\* collection is created and stays empty; the call then returns or raises, depending on
\* the installed library (esito_vuoto).
\* Result: the directory afterwards, and the handle (None when the call raised).
crea_vector_store(chunks, persist_directory, config_model, esito_vuoto) ==
    LET embeddings == _crea_embeddings(config_model)
        collection == persist_directory.collection
                      \o [ i \in 1..Len(chunks) |-> Voce(chunks[i], embeddings) ]
    IN  [ disco |-> Dir(collection),
          vector_store |-> IF chunks = << >> /\ esito_vuoto = "errore"
                           THEN None
                           ELSE Chroma(embeddings, collection) ]

\* faulty variant: the emptiness check is left out
carica_vector_store_senza_conteggio(persist_directory, config_model) ==
    IF ~persist_directory.esiste THEN None
    ELSE Chroma(_crea_embeddings(config_model), persist_directory.collection)

\* carica_vector_store: None when the directory is absent or the collection is empty;
\* the embedder is built from the current configuration, whatever built the collection
carica_vector_store(persist_directory, config_model) ==
    IF ~persist_directory.esiste THEN None
    ELSE LET embeddings == _crea_embeddings(config_model)
             vector_store == Chroma(embeddings, persist_directory.collection)
             conteggio == Len(vector_store.collection)
         IN  IF conteggio = 0 THEN None ELSE vector_store

\* crea_catena_rag: retriever over the vector store (k = TOP_K), llm
crea_catena_rag(vector_store) ==
    [ retriever |-> [ vectorstore |-> vector_store, k |-> TOP_K ],
      llm |-> OLLAMA_MODEL ]

\* faulty variant: shutil.rmtree of the old index is left out
Step0SenzaRmtree(persist_directory) == persist_directory

\* Step 0 of indicizza_documenti: the old index directory is removed when it exists
Step0(persist_directory) == NoDir

\* indicizza_documenti: rmtree, carica_pdf, chunking, crea_vector_store.
\* embed_ok = FALSE: the embedding model cannot be loaded, _crea_embeddings raises.
\* Result: esito ("ok" or the failure), the pages loaded, the number of chunks handed to
\* crea_vector_store (-1 when it was not reached), the directory afterwards, the handle.
indicizza_documenti(cartella, persist_directory, config_model, esito_vuoto, embed_ok) ==
    LET disco0 == Step0(persist_directory)
        documenti == carica_pdf(cartella, Elenco)
        chunks == chunking(documenti, CHUNK_SIZE, CHUNK_OVERLAP)
        creato == crea_vector_store(chunks, disco0, config_model, esito_vuoto)
    IN  IF documenti = << >>
        THEN [ esito |-> "NoDocumentsFound", documenti |-> documenti, n_chunks |-> -1,
               disco |-> disco0, vector_store |-> None ]
        ELSE IF ~embed_ok
        THEN [ esito |-> "errore_embedding", documenti |-> documenti,
               n_chunks |-> Len(chunks), disco |-> disco0, vector_store |-> None ]
        ELSE IF creato.vector_store = None
        THEN [ esito |-> "errore_build", documenti |-> documenti,
               n_chunks |-> Len(chunks), disco |-> creato.disco, vector_store |-> None ]
        ELSE [ esito |-> "ok", documenti |-> documenti, n_chunks |-> Len(chunks),
               disco |-> creato.disco, vector_store |-> creato.vector_store ]

-----------------------------------------------------------------------------
(* Retriever and Answerer: fai_domanda *)

\* the questions the user can type
Domande == { "What is the capital of Italy?", "Riassumi il documento" }

\* what the language model returns when it answers
Risposte == { "Rome (a.pdf, pagina 0)" }

\* Cosine similarity of the query and an entry.  The embedding is an opaque capability:
\* this table only fixes, for each question, a ranking of the texts that differs from
\* the storage order.  Vectors of another model than the query's carry no signal.
Punteggio(domanda_, embeddings, voce) ==
    IF voce.embedding # embeddings THEN 0
    ELSE IF domanda_ = "What is the capital of Italy?" THEN 0 - Len(voce.page_content)
    ELSE Len(voce.page_content)

\* the sequence without its i-th element
Senza(seq, i) == SubSeq(seq, 1, i - 1) \o SubSeq(seq, i + 1, Len(seq))

RECURSIVE Migliori(_, _, _, _)
\* similarity search: the k entries of highest score, best first (ties in storage
\* order), min(k, count) of them, returned as Documents
Migliori(domanda_, embeddings, collection, k) ==
    IF k = 0 \/ collection = << >> THEN << >>
    ELSE LET P(i) == Punteggio(domanda_, embeddings, collection[i])
             m == CHOOSE i \in 1..Len(collection) :
                      \A j \in 1..Len(collection) :
                          P(j) < P(i) \/ (P(j) = P(i) /\ i <= j)
             v == collection[m]
         IN  << Document(v.page_content, v.source_filename, v.page) >>
             \o Migliori(domanda_, embeddings, Senza(collection, m), k - 1)

\* retriever.invoke(domanda)
retriever_invoke(retriever, domanda_) ==
    Migliori(domanda_, retriever.vectorstore.embedding_function,
             retriever.vectorstore.collection, retriever.k)

RECURSIVE Join(_, _)
\* Python sep.join(testi)
Join(sep, testi) ==
    IF testi = << >> THEN ""
    ELSE IF Len(testi) = 1 THEN testi[1]
    ELSE testi[1] \o sep \o Join(sep, Tail(testi))

\* Step 2: the context block
Contesto(trovati) ==
    Join(SEPARATORE_CONTESTO, [ i \in 1..Len(trovati) |-> trovati[i].page_content ])

\* Step 3: prompt.format(context=contesto, question=domanda), as the two fields
PromptFinale(trovati, domanda_) == [ context |-> Contesto(trovati), question |-> domanda_ ]

\* faulty variant: the excerpt is taken from the end of the text
TestoChunkCoda(page_content) ==
    SubSeq(page_content,
           IF Len(page_content) > ESTRATTO_LEN THEN Len(page_content) - ESTRATTO_LEN + 1 ELSE 1,
           Len(page_content)) \o PUNTINI

\* doc.page_content[:300] + "..."
TestoChunk(page_content) == Primi(page_content, ESTRATTO_LEN) \o PUNTINI

\* faulty variant: the sources are listed in reverse order
FontiRovesciate(trovati) ==
    [ i \in 1..Len(trovati) |->
        [ documento |-> trovati[Len(trovati) + 1 - i].source_filename,
          pagina |-> trovati[Len(trovati) + 1 - i].page,
          testo_chunk |-> TestoChunk(trovati[Len(trovati) + 1 - i].page_content) ] ]

\* the loop building fonti: one dict per retrieved document, in order
Fonti(trovati) ==
    [ i \in 1..Len(trovati) |->
        [ documento |-> trovati[i].source_filename,
          pagina |-> trovati[i].page,
          testo_chunk |-> TestoChunk(trovati[i].page_content) ] ]

\* nothing but a message (or nothing at all) in the main area
Avviso(tipo) == [ tipo |-> tipo, risposta |-> "", fonti |-> << >> ]

\* the page after fai_domanda returned: st.markdown(risposta), one expander per fonte
Mostra(ris) ==
    [ tipo |-> "risposta", risposta |-> ris.risposta,
      fonti |-> [ i \in 1..Len(ris.fonti) |->
                    [ titolo |-> << i, ris.fonti[i].documento, ris.fonti[i].pagina >>,
                      testo |-> ris.fonti[i].testo_chunk ] ] ]

\* faulty variant: when llm.invoke raises, the sources found are returned and shown all the same
DopoLlmParziale(risposta, trovati) ==
    LET ris == [ risposta |-> risposta, fonti |-> Fonti(trovati) ]
    IN  [ stato |-> IF risposta = "" THEN "Failed" ELSE "Done",
          risultato |-> ris, schermo |-> Mostra(ris) ]

\* after llm.invoke (risposta = "": it raised): fai_domanda returns risposta and fonti
\* and the page shows them; on a raise the except branch of the page shows the error
DopoLlm(risposta, trovati) ==
    IF risposta = ""
    THEN [ stato |-> "Failed", risultato |-> None, schermo |-> Avviso("errore_risposta") ]
    ELSE LET ris == [ risposta |-> risposta, fonti |-> Fonti(trovati) ]
         IN  [ stato |-> "Done", risultato |-> ris, schermo |-> Mostra(ris) ]

-----------------------------------------------------------------------------
(* The application: one run of the Streamlit script *)

SessioneVuota == [ vector_store |-> None, catena |-> None ]

\* faulty variant: the chain is created only when the session has none yet
SessioneCatenaVecchia(vector_store) ==
    [ vector_store |-> vector_store,
      catena |-> IF session_state.catena = None THEN crea_catena_rag(vector_store)
                 ELSE session_state.catena ]

\* st.session_state["vector_store"] = vector_store
\* st.session_state["catena"] = crea_catena_rag(vector_store)
Sessione(vector_store) ==
    [ vector_store |-> vector_store, catena |-> crea_catena_rag(vector_store) ]

\* the source files that have entries in a persisted collection
FileIndicizzati(persist_directory) ==
    { persist_directory.collection[i].source_filename :
        i \in 1..Len(persist_directory.collection) }

\* the contents the documents directory can have
Cartelle ==
    { Assente } \cup
    { [ esiste |-> TRUE, file |-> c ] : c \in { c \in SUBSET Files : Cardinality(c) <= MaxFiles } }

Nessuno == [ tipo |-> "nessuno" ]

\* faulty variant: the question is passed on whatever the session holds
ProntaSempre(sessione) == TRUE

\* "catena" in st.session_state
Pronta(sessione) == sessione.catena # None

\* a fresh process on a machine where nothing was indexed yet
InitResto ==
    /\ chroma_db = NoDir
    /\ embedding_model = EMBEDDING_MODEL
    /\ session_state = SessioneVuota
    /\ persist_rimossa = FALSE
    /\ stato = "Idle"
    /\ domanda = ""
    /\ documenti_trovati = << >>
    /\ prompt_finale = None
    /\ llm_invocato = FALSE
    /\ risultato = None
    /\ schermo = Avviso("niente")
    /\ evento = Nessuno

Init ==
    /\ documents_dir = Assente
    /\ InitResto

\* between two runs the documents directory is created or removed, or one file is
\* added to it or removed from it
ModificaDocumenti ==
    /\ stato = "Idle"
    /\ \E nuova \in Cartelle :
         /\ \/ nuova.esiste # documents_dir.esiste /\ nuova.file = documents_dir.file
            \/ /\ nuova.esiste /\ documents_dir.esiste
               /\ \E f \in Files : \/ nuova.file = documents_dir.file \cup { f }
                                  \/ nuova.file = documents_dir.file \ { f }
         /\ nuova # documents_dir
         /\ documents_dir' = nuova
    /\ evento' = Nessuno
    /\ UNCHANGED << chroma_db, embedding_model, session_state, persist_rimossa, stato,
                    domanda, documenti_trovati, prompt_finale, llm_invocato, risultato,
                    schermo >>

\* the process is restarted, possibly after config.EMBEDDING_MODEL was edited:
\* the session starts empty, the directories stay as they are
Riavvio ==
    /\ stato = "Idle"
    /\ \E modello \in Models : embedding_model' = modello
    /\ session_state' = SessioneVuota
    /\ persist_rimossa' = FALSE
    /\ evento' = Nessuno
    /\ UNCHANGED << documents_dir, chroma_db, stato, domanda, documenti_trovati,
                    prompt_finale, llm_invocato, risultato, schermo >>

\* One run of app.py up to the call of fai_domanda.
\*   bottone: the index button was pressed; testo: the content of the text input;
\*   ollama_sidebar, ollama_main: the answers of the two controlla_ollama() probes;
\*   esito_vuoto, embed_ok: what the libraries do inside indicizza_documenti.
\* An input is drawn only where the code reads it.
EseguiScript ==
    /\ stato = "Idle"
    /\ LET pdf_trovati == lista_documenti(documents_dir) IN
       \E bottone \in BOOLEAN, testo \in { "" } \cup Domande :
       \E ollama_sidebar \in IF bottone THEN BOOLEAN ELSE { FALSE },
          ollama_main \in IF testo # "" THEN BOOLEAN ELSE { FALSE } :
       \E esito_vuoto \in IF ollama_sidebar THEN { "ok", "errore" } ELSE { "ok" },
          embed_ok \in IF ollama_sidebar THEN BOOLEAN ELSE { TRUE } :
        LET \* sidebar: the button handler
            indicizza == bottone /\ ollama_sidebar /\ pdf_trovati # << >>
            ind == indicizza_documenti(documents_dir, chroma_db, embedding_model,
                                       esito_vuoto, embed_ok)
            disco1 == IF indicizza THEN ind.disco ELSE chroma_db
            sessione1 == IF indicizza /\ ind.esito = "ok"
                         THEN Sessione(ind.vector_store)
                         ELSE session_state
            rimossa1 == IF ~indicizza THEN persist_rimossa
                        ELSE ind.esito # "ok" /\ session_state.vector_store # None
            \* main area: startup auto-load
            tenta == sessione1.vector_store = None
            caricato == carica_vector_store(disco1, embedding_model)
            sessione2 == IF tenta /\ caricato # None THEN Sessione(caricato) ELSE sessione1
            \* the question
            chiede == testo # "" /\ Pronta(sessione2) /\ ollama_main
        IN  /\ chroma_db' = disco1
            /\ session_state' = sessione2
            /\ persist_rimossa' = rimossa1
            /\ evento' =
                 [ tipo |-> "script",
                   indicizzazione |->
                     IF indicizza
                     THEN [ eseguita |-> TRUE, esito |-> ind.esito,
                            documenti |-> ind.documenti, n_chunks |-> ind.n_chunks,
                            prima |-> FileIndicizzati(chroma_db) ]
                     ELSE [ eseguita |-> FALSE ],
                   caricamento |->
                     IF tenta THEN [ eseguito |-> TRUE, vector_store |-> caricato ]
                     ELSE [ eseguito |-> FALSE ] ]
            /\ domanda' = testo
            /\ stato' = IF testo = "" THEN "Idle"
                        ELSE IF chiede THEN "Retrieving"
                        ELSE "Respinta"
            /\ schermo' = IF testo = "" \/ chiede THEN Avviso("niente")
                          ELSE IF ~Pronta(sessione2) THEN Avviso("avviso_indice")
                          ELSE Avviso("errore_ollama")
    /\ UNCHANGED << documents_dir, embedding_model, documenti_trovati, prompt_finale,
                    llm_invocato, risultato >>

\* fai_domanda, Step 1: retriever.invoke(domanda).  It raises when the session has no
\* chain (KeyError), and it may raise (sopravvive = FALSE) when the directory of the
\* open client was removed by a failed indexing.
Retrieve ==
    /\ stato = "Retrieving"
    /\ \E sopravvive \in IF persist_rimossa THEN BOOLEAN ELSE { TRUE } :
         IF session_state.catena = None \/ ~sopravvive
         THEN /\ stato' = "Failed"
              /\ schermo' = Avviso("errore_risposta")
              /\ UNCHANGED documenti_trovati
         ELSE /\ stato' = "Generating"
              /\ documenti_trovati' =
                   retriever_invoke(session_state.catena.retriever, domanda)
              /\ UNCHANGED schermo
    /\ evento' = Nessuno
    /\ UNCHANGED << documents_dir, chroma_db, embedding_model, session_state,
                    persist_rimossa, domanda, prompt_finale, llm_invocato, risultato >>

\* fai_domanda, Steps 2-4 and the sources: the prompt is assembled and llm.invoke is
\* called; it returns an answer or raises (risposta = "")
Generate ==
    /\ stato = "Generating"
    /\ prompt_finale' = PromptFinale(documenti_trovati, domanda)
    /\ llm_invocato' = TRUE
    /\ \E risposta \in Risposte \cup { "" } :
         LET dopo == DopoLlm(risposta, documenti_trovati)
         IN  /\ stato' = dopo.stato
             /\ risultato' = dopo.risultato
             /\ schermo' = dopo.schermo
    /\ evento' = Nessuno
    /\ UNCHANGED << documents_dir, chroma_db, embedding_model, session_state,
                    persist_rimossa, domanda, documenti_trovati >>

\* the run ends: its local values are gone, the next run renders the page anew
FineScript ==
    /\ stato \in { "Done", "Failed", "Respinta" }
    /\ stato' = "Idle"
    /\ domanda' = ""
    /\ documenti_trovati' = << >>
    /\ prompt_finale' = None
    /\ llm_invocato' = FALSE
    /\ risultato' = None
    /\ schermo' = Avviso("niente")
    /\ evento' = Nessuno
    /\ UNCHANGED << documents_dir, chroma_db, embedding_model, session_state,
                    persist_rimossa >>

Next ==
    \/ ModificaDocumenti
    \/ Riavvio
    \/ EseguiScript
    \/ Retrieve
    \/ Generate
    \/ FineScript

Spec == Init /\ [][Next]_vars

-----------------------------------------------------------------------------
(* carica_pdf called on its own, on any directory and any listing order *)

\* the orders in which the file system can list the files
Ordini ==
    { o \in [ 1..Len(Elenco) -> Files ] :
        \A i, j \in 1..Len(Elenco) : i # j => o[i] # o[j] }

InitCaricaPdf ==
    /\ documents_dir \in Cartelle
    /\ InitResto

ChiamaCaricaPdf ==
    /\ evento.tipo = "nessuno"
    /\ \E elenco \in Ordini :
         evento' = [ tipo |-> "carica_pdf", elenco |-> elenco,
                     documenti |-> carica_pdf(documents_dir, elenco) ]
    /\ UNCHANGED << documents_dir, chroma_db, embedding_model, session_state,
                    persist_rimossa, stato, domanda, documenti_trovati, prompt_finale,
                    llm_invocato, risultato, schermo >>

NextCaricaPdf == ChiamaCaricaPdf

SpecCaricaPdf == InitCaricaPdf /\ [][NextCaricaPdf]_vars

-----------------------------------------------------------------------------
(* Properties *)

\* the step that led to this state ran indicizza_documenti
HaIndicizzato == evento.tipo = "script" /\ evento.indicizzazione.eseguita

\* the step that led to this state ran carica_vector_store
HaCaricato == evento.tipo = "script" /\ evento.caricamento.eseguito

\* C1: after every index rebuild, each entry of the persisted index belongs to a
\* document that was in the documents directory at that rebuild, and the persisted
\* index changes in no other step; so a rebuild on a smaller document set leaves no
\* entry of a removed document.
C1_NessunOrfano ==
    /\ [](HaIndicizzato =>
            \A i \in 1..Len(chroma_db.collection) :
                chroma_db.collection[i].source_filename \in documents_dir.file)
    /\ [][chroma_db' # chroma_db => evento'.tipo = "script" /\ evento'.indicizzazione.eseguita]_vars

\* a successful rebuild dropped a document that had entries, and the index is non-empty
C1_Witness ==
    /\ HaIndicizzato
    /\ evento.indicizzazione.esito = "ok"
    /\ Len(chroma_db.collection) > 0
    /\ \E f \in evento.indicizzazione.prima : f \notin documents_dir.file

\* C2 (as claimed): when indexing fails with NoDocumentsFound and a non-empty index was
\* persisted before, a non-empty persisted index still exists afterwards.
C2_IndicePrecedenteResta ==
    ( /\ HaIndicizzato
      /\ evento.indicizzazione.esito = "NoDocumentsFound"
      /\ evento.indicizzazione.prima # { } )
    => chroma_db.esiste /\ Len(chroma_db.collection) > 0

\* C3: carica_vector_store returns None exactly when the persist directory is absent or
\* its collection has no entry; a handle it returns is on a collection of at least one
\* entry, the persisted one.
C3_CaricaVectorStore ==
    HaCaricato =>
        LET vs == evento.caricamento.vector_store
        IN  /\ (vs = None) <=> (~chroma_db.esiste \/ Len(chroma_db.collection) = 0)
            /\ vs # None => /\ Len(vs.collection) >= 1
                            /\ vs.collection = chroma_db.collection

\* carica_vector_store ran on a persisted but empty index and returned None
C3_Witness ==
    /\ HaCaricato
    /\ chroma_db.esiste
    /\ Len(chroma_db.collection) = 0
    /\ evento.caricamento.vector_store = None

\* C4 (as claimed): when the chunk sequence handed to the build is empty, the build
\* fails and no zero-entry persisted store exists afterwards.
C4_NessunIndiceVuoto ==
    (HaIndicizzato /\ evento.indicizzazione.n_chunks = 0) =>
        /\ evento.indicizzazione.esito # "ok"
        /\ ~(chroma_db.esiste /\ Len(chroma_db.collection) = 0)

\* C5: a question asked while the session holds no chain is refused with the no-index
\* warning: fai_domanda is not entered, the language model is not called, nothing is
\* returned.
C5_SenzaIndiceNessunaGenerazione ==
    (domanda # "" /\ session_state.catena = None) =>
        /\ stato = "Respinta"
        /\ schermo = Avviso("avviso_indice")
        /\ ~llm_invocato
        /\ risultato = None

\* a question was asked in a session without chain
C5_Witness ==
    /\ domanda # ""
    /\ session_state.catena = None
    /\ stato = "Respinta"

\* the steps the question of a run can take
PassiAmmessi ==
    { << "Idle", "Retrieving" >>, << "Retrieving", "Generating" >>,
      << "Generating", "Done" >>, << "Retrieving", "Failed" >>,
      << "Generating", "Failed" >>, << "Idle", "Respinta" >>,
      << "Done", "Idle" >>, << "Failed", "Idle" >>, << "Respinta", "Idle" >> }

\* C6: a question goes Idle -> Retrieving -> Generating -> Done in this order; the
\* language model is called only from Generating, which is entered only when the
\* retrieval has returned; a question that ends in Failed has returned nothing and the
\* page shows neither an answer nor a source, also when the retrieval had succeeded.
C6_OrdineERisultato ==
    /\ [][ /\ stato' # stato => << stato, stato' >> \in PassiAmmessi
           /\ (llm_invocato' /\ ~llm_invocato) => stato = "Generating" ]_vars
    /\ []( /\ stato = "Failed" =>
                /\ risultato = None
                /\ schermo.risposta = ""
                /\ schermo.fonti = << >>
           /\ stato = "Done" =>
                /\ llm_invocato
                /\ risultato # None
           /\ stato \in { "Idle", "Retrieving", "Respinta" } => ~llm_invocato )

\* the generation failed after a retrieval that had found chunks
C6_Witness ==
    /\ stato = "Failed"
    /\ llm_invocato
    /\ Len(documenti_trovati) > 0

\* C7: a successful question returns one citation per retrieved chunk, in retrieval
\* order, citation i carrying the file name and the page of chunk i; the context of the
\* prompt lists the chunk texts in the same order.
C7_CitazioniInOrdine ==
    stato = "Done" =>
        /\ Len(risultato.fonti) = Len(documenti_trovati)
        /\ \A i \in 1..Len(documenti_trovati) :
             /\ risultato.fonti[i].documento = documenti_trovati[i].source_filename
             /\ risultato.fonti[i].pagina = documenti_trovati[i].page
        /\ prompt_finale.context =
             Join(SEPARATORE_CONTESTO,
                  [ i \in 1..Len(documenti_trovati) |-> documenti_trovati[i].page_content ])
        /\ Len(documenti_trovati) > 0 =>
             IsPrefix(SubSeq(risultato.fonti[1].testo_chunk, 1,
                             Len(risultato.fonti[1].testo_chunk) - Len(PUNTINI)),
                      prompt_finale.context)

\* TOP_K chunks of two files were retrieved out of a larger collection, in an order
\* that is not the storage order
C7_Witness ==
    /\ stato = "Done"
    /\ Len(session_state.vector_store.collection) > TOP_K
    /\ Len(documenti_trovati) = TOP_K
    /\ \E i, j \in 1..TOP_K :
         documenti_trovati[i].source_filename # documenti_trovati[j].source_filename
    /\ \E i \in 1..(TOP_K - 1) :
         documenti_trovati[i].page > documenti_trovati[i + 1].page

\* C8 (as claimed): the excerpt of every citation is a prefix of the text of its chunk.
C8_EstrattoPrefisso ==
    stato = "Done" =>
        \A i \in 1..Len(documenti_trovati) :
            IsPrefix(risultato.fonti[i].testo_chunk, documenti_trovati[i].page_content)

\* C8 (amended): the excerpt of every citation is the first min(300, length) characters
\* of the text of its chunk followed by "...": without its last three characters it is
\* a prefix of the chunk text.
C8_EstrattoConPuntini ==
    stato = "Done" =>
        \A i \in 1..Len(documenti_trovati) :
            LET estratto == risultato.fonti[i].testo_chunk
                testo == documenti_trovati[i].page_content
                n == Len(estratto) - Len(PUNTINI)
            IN  /\ n >= 0
                /\ SubSeq(estratto, n + 1, Len(estratto)) = PUNTINI
                /\ IsPrefix(SubSeq(estratto, 1, n), testo)
                /\ n = IF Len(testo) < ESTRATTO_LEN THEN Len(testo) ELSE ESTRATTO_LEN

\* citations of a chunk shorter than the excerpt length and of a longer one
C8_Witness ==
    /\ stato = "Done"
    /\ \E i, j \in 1..Len(documenti_trovati) :
         /\ Len(documenti_trovati[i].page_content) < ESTRATTO_LEN
         /\ Len(documenti_trovati[j].page_content) > ESTRATTO_LEN

\* C9 (as claimed): the embedder of the vector store the session holds is the one that
\* computed the vectors of the collection it searches.
C9_StessoEmbedder ==
    session_state.vector_store # None =>
        \A i \in 1..Len(session_state.vector_store.collection) :
            session_state.vector_store.collection[i].embedding
                = session_state.vector_store.embedding_function

\* the pages of the files of the directory that glob matches and that load
PagineAttese(cartella) ==
    { << f, p >> : f \in { g \in cartella.file : EndsWith(g, ".pdf") /\ ~Corrotto(g) },
                   p \in 0..4 }
    \cap { << f, p >> \in Files \X (0..4) : p < Len(Contenuto(f)) }

\* C10: carica_pdf returns exactly the pages of the files that load, each once and
\* tagged with the name of its file, whatever files fail to load; it returns the empty
\* list when the directory is empty or absent.
C10_CaricaPdf ==
    evento.tipo = "carica_pdf" =>
        LET docs == evento.documenti
        IN  /\ \A i \in 1..Len(docs) :
                 /\ << docs[i].source_filename, docs[i].page >> \in PagineAttese(documents_dir)
                 /\ docs[i].page_content = Contenuto(docs[i].source_filename)[docs[i].page + 1]
            /\ \A fp \in PagineAttese(documents_dir) :
                 Cardinality({ i \in 1..Len(docs) :
                                 << docs[i].source_filename, docs[i].page >> = fp }) = 1
            /\ (~documents_dir.esiste \/ documents_dir.file = { }) => docs = << >>

\* a file that fails to load is listed before one that loads, whose pages are returned
C10_Witness ==
    /\ evento.tipo = "carica_pdf"
    /\ \E i, j \in 1..Len(evento.elenco) :
         /\ i < j
         /\ evento.elenco[i] \in documents_dir.file
         /\ Corrotto(evento.elenco[i])
         /\ \E k \in 1..Len(evento.documenti) :
              evento.documenti[k].source_filename = evento.elenco[j]

\* the step that led to this state ran indicizza_documenti and it returned
IndicizzazioneRiuscita == HaIndicizzato /\ evento.indicizzazione.esito = "ok"

\* C11: when indicizza_documenti returns in two runs in a row (the documents directory
\* and the configuration are the same in both), the persisted index has as many entries
\* after the second run as after the first, namely one per chunk of the second run:
\* the entries of the first run are neither kept nor added to.
C11_RicostruzioneIdempotente ==
    [][ ( /\ IndicizzazioneRiuscita
          /\ IndicizzazioneRiuscita'
          /\ documents_dir' = documents_dir )
        => /\ Len(chroma_db'.collection) = Len(chroma_db.collection)
           /\ Len(chroma_db'.collection) = evento'.indicizzazione.n_chunks ]_vars

\* a rebuild returned over an index that held entries of exactly the files it holds
\* now, several chunks among them
C11_Witness ==
    /\ IndicizzazioneRiuscita
    /\ evento.indicizzazione.prima # { }
    /\ evento.indicizzazione.prima = FileIndicizzati(chroma_db)
    /\ Len(chroma_db.collection) > 1

\* C12: at every point of every run the session holds a chain exactly when it holds a
\* vector store, and the retriever of the chain it holds searches the vector store it
\* holds; a run whose indexing fails leaves both session entries as they were.
C12_SessioneCoerente ==
    /\ []( /\ (session_state.catena # None) <=> (session_state.vector_store # None)
           /\ session_state.catena # None =>
                /\ session_state.catena.retriever.vectorstore = session_state.vector_store
                /\ session_state.catena.retriever.k = TOP_K )
    /\ [][ (HaIndicizzato' /\ evento'.indicizzazione.esito # "ok")
              => session_state' = session_state ]_vars

\* an indexing failed in a session that held a chain over an index of several entries,
\* and the persisted index is gone
C12_Witness ==
    /\ HaIndicizzato
    /\ evento.indicizzazione.esito # "ok"
    /\ session_state.catena # None
    /\ Len(session_state.vector_store.collection) > 1
    /\ ~chroma_db.esiste

====
